---- MODULE Spec2Model ----
(***************************************************************************)
(* Model of the ferryd job Processor (src/src/ferryd/jobs/processor.go):  *)
(* two unbuffered lanes, one sequential pump and njobs background workers  *)
(* per Begin, a job table under a sync.RWMutex, a buffered quit channel    *)
(* and a WaitGroup.  Every goroutine is a process with a program counter.  *)
(***************************************************************************)
EXTENDS Integers, FiniteSets, Sequences, TLC

\* ------------------------------------------------------------------ bounds
NJobs == 1          \* the njobs argument of NewProcessor (background workers)
MaxJobs == 3        \* Job objects created over the run
NumSubmitters == 2  \* concurrent client goroutines
MaxBegins == 2      \* calls of Begin
MaxCloses == 1      \* calls of Close
MaxTime == 1        \* time.Now() returns 0..MaxTime (seconds), never going back
MaxRestarts == 1    \* repeated StartJob calls on an already started job
MaxCalls == 4       \* calls of the public operations over the run

\* ------------------------------------------------------------------ names
Jobs == 1..MaxJobs
NoJob == 0
Kinds == {"import", "delta"}
NoKind == "none"
NoId == <<NoKind, 0, 0>>

Submitters == {<<"sub", k, 0>> : k \in 1..NumSubmitters}
Starter(j) == <<"go", j, 0>>
Starters == {Starter(j) : j \in Jobs}
Consumer(b, i) == <<"con", b, i>>
Consumers == {Consumer(b, i) : b \in 1..MaxBegins, i \in 0..NJobs}
BgQueue(b) == <<"bgq", b, 0>>
BgQueues == {BgQueue(b) : b \in 1..MaxBegins}
Ctl == <<"ctl", 0, 0>>
NoProc == <<"nobody", 0, 0>>
Procs == Submitters \cup Starters \cup Consumers \cup BgQueues \cup {Ctl}

VARIABLES
    closed,      \* Processor.closed; both lane channels are closed with it
    quit,        \* number of values buffered in Processor.quit
    wg,          \* counter of Processor.wg
    wmu,         \* the goroutine inside or waiting in mut.Lock(), or NoProc
    readers,     \* goroutines holding mut.RLock()
    jobTable,    \* Processor.jobTable: job id -> Job
    task,        \* Job.task, by its kind; NoKind until the Job exists
    created,     \* Job.timing.Created (unix seconds)
    id,          \* Job.id
    status,      \* Job.status
    completed,   \* Jobs whose timing.Completed has been set
    parents,     \* Job -> the Jobs waiting on it
    waiting,     \* Job -> the children that have not yet notified it
    children,    \* Job -> every child ever registered on it
    startCalls,  \* Job -> number of StartJob calls made for it
    pc,          \* program counter of every goroutine
    arg,         \* the Job a goroutine is working on, and whether PushJob
    err,         \* Consumer -> whether Perform returned an error
    now,         \* the last value time.Now() returned, in seconds
    nCreated,    \* Job objects allocated so far
    beginCalls,  \* calls of Begin so far
    closeCalls,  \* calls of Close so far
    closeReturned, \* whether a Close that closed the Processor has returned
    restarts,    \* repeated StartJob calls so far
    pushed,      \* Jobs created by PushJob (the others by PushJobLater)
    calls,       \* calls of the public operations so far
    before,      \* Job -> sequential Jobs whose PushJob had returned when its own PushJob was called
    panicked     \* "none", or why the process aborted

vars == <<closed, quit, wg, wmu, readers, jobTable, task, created, id, status,
          completed, parents, waiting, children, startCalls, pc, arg,
          err, now, nCreated, beginCalls, closeCalls, closeReturned, restarts,
          pushed, calls, before, panicked>>

jobVars == <<task, created, id, status, completed>>
depVars == <<parents, waiting, children>>
ctlVars == <<beginCalls, closeCalls, closeReturned>>
histVars == <<pushed, before>>

\* ------------------------------------------------------------------ helpers
NoArg == [job |-> NoJob, start |-> FALSE]

IsSequential(k) == k = "import"

IsSeqConsumer(c) == c[3] = 0

\* the first counter for which "<nom>-<unix>-<counter>" is absent from the table
RECURSIVE FreeCounter(_, _, _, _)
FreeCounter(tbl, nom, unix, counter) ==
    IF <<nom, unix, counter>> \notin DOMAIN tbl
    THEN counter
    ELSE FreeCounter(tbl, nom, unix, counter + 1)

TableInsert(tbl, key, j) ==
    [k \in DOMAIN tbl \cup {key} |-> IF k = key THEN j ELSE tbl[k]]

TableDelete(tbl, key) ==
    [k \in DOMAIN tbl \ {key} |-> tbl[k]]

\* Job.NotifyDone: the parents for which j was the last outstanding child
NotifyDone(j) == {p \in parents[j] : waiting[p] = {j}}

InCall(j) == \E s \in Submitters : arg[s].job = j

\* Jobs whose PushJob call has returned
Returned == {j \in pushed : ~\E s \in Submitters : arg[s] = [job |-> j, start |-> TRUE]}

\* Jobs whose timing.Started has been set
started == {j \in Jobs : status[j] \in {"Running", "Success", "Failed"}}

\* idle client goroutines are interchangeable: the lowest-numbered one makes the call
NextCaller(s) ==
    /\ pc[s] = "idle"
    /\ \A t \in Submitters : pc[t] = "idle" => s[2] <= t[2]

\* consumers of one lane waiting in the select are interchangeable: the
\* lowest-numbered one takes what arrives
NextConsumer(c) ==
    /\ pc[c] = "idle"
    /\ \A d \in Consumers :
          (pc[d] = "idle" /\ (d[3] = 0) = (c[3] = 0)) => (c[2] < d[2] \/ (c[2] = d[2] /\ c[3] <= d[3]))

\* ------------------------------------------------------------------ initial state
\* the Processor as NewProcessor returns it
NewProcessor ==
    /\ closed = FALSE
    /\ quit = 0
    /\ wg = 0
    /\ wmu = NoProc
    /\ readers = {}
    /\ jobTable = <<>>
    /\ task = [j \in Jobs |-> NoKind]
    /\ created = [j \in Jobs |-> 0]
    /\ id = [j \in Jobs |-> NoId]
    /\ status = [j \in Jobs |-> "None"]
    /\ completed = {}
    /\ parents = [j \in Jobs |-> {}]
    /\ waiting = [j \in Jobs |-> {}]
    /\ children = [j \in Jobs |-> {}]
    /\ startCalls = [j \in Jobs |-> 0]
    /\ pc = [p \in Procs |-> IF p \in Submitters \cup {Ctl} THEN "idle" ELSE "none"]
    /\ arg = [p \in Procs |-> NoArg]
    /\ err = [c \in Consumers |-> FALSE]
    /\ now = 0
    /\ nCreated = 0
    /\ beginCalls = 0
    /\ closeCalls = 0
    /\ closeReturned = FALSE
    /\ restarts = 0
    /\ pushed = {}
    /\ calls = 0
    /\ before = [j \in Jobs |-> {}]
    /\ panicked = "none"

\* the Processor after a client has made three PushJobLater calls in second 0
\* (a parent of kind k, then a sequential and a background child) and has
\* registered both children on the parent; the ids are those initMetadata
\* gives them in that order
FanIn(k) ==
    LET id1 == <<k, 0, 0>>
        t1 == TableInsert(<<>>, id1, 1)
        id2 == <<"import", 0, FreeCounter(t1, "import", 0, 0)>>
        t2 == TableInsert(t1, id2, 2)
        id3 == <<"delta", 0, FreeCounter(t2, "delta", 0, 0)>>
        t3 == TableInsert(t2, id3, 3)
    IN
    /\ closed = FALSE
    /\ quit = 0
    /\ wg = 0
    /\ wmu = NoProc
    /\ readers = {}
    /\ jobTable = t3
    /\ task = [j \in Jobs |-> IF j = 1 THEN k ELSE IF j = 2 THEN "import"
                              ELSE IF j = 3 THEN "delta" ELSE NoKind]
    /\ created = [j \in Jobs |-> 0]
    /\ id = [j \in Jobs |-> IF j = 1 THEN id1 ELSE IF j = 2 THEN id2
                            ELSE IF j = 3 THEN id3 ELSE NoId]
    /\ status = [j \in Jobs |-> IF j <= 3 THEN "Pending" ELSE "None"]
    /\ completed = {}
    /\ parents = [j \in Jobs |-> IF j \in {2, 3} THEN {1} ELSE {}]
    /\ waiting = [j \in Jobs |-> IF j = 1 THEN {2, 3} ELSE {}]
    /\ children = [j \in Jobs |-> IF j = 1 THEN {2, 3} ELSE {}]
    /\ startCalls = [j \in Jobs |-> 0]
    /\ pc = [p \in Procs |-> IF p \in Submitters \cup {Ctl} THEN "idle" ELSE "none"]
    /\ arg = [p \in Procs |-> NoArg]
    /\ err = [c \in Consumers |-> FALSE]
    /\ now = 0
    /\ nCreated = 3
    /\ beginCalls = 0
    /\ closeCalls = 0
    /\ closeReturned = FALSE
    /\ restarts = 0
    /\ pushed = {}
    /\ calls = 0
    /\ before = [j \in Jobs |-> {}]
    /\ panicked = "none"

\* a run starts from a new Processor, or from one holding a registered fan-in
Init == NewProcessor \/ \E k \in Kinds : FanIn(k)

\* the process is gone: every goroutine and all state with it
Crash(why) ==
    /\ closed' = FALSE
    /\ quit' = 0
    /\ wg' = 0
    /\ wmu' = NoProc
    /\ readers' = {}
    /\ jobTable' = <<>>
    /\ task' = [j \in Jobs |-> NoKind]
    /\ created' = [j \in Jobs |-> 0]
    /\ id' = [j \in Jobs |-> NoId]
    /\ status' = [j \in Jobs |-> "None"]
    /\ completed' = {}
    /\ parents' = [j \in Jobs |-> {}]
    /\ waiting' = [j \in Jobs |-> {}]
    /\ children' = [j \in Jobs |-> {}]
    /\ startCalls' = [j \in Jobs |-> 0]
    /\ pc' = [p \in Procs |-> "none"]
    /\ arg' = [p \in Procs |-> NoArg]
    /\ err' = [c \in Consumers |-> FALSE]
    /\ now' = 0
    /\ nCreated' = 0
    /\ beginCalls' = 0
    /\ closeCalls' = 0
    /\ closeReturned' = FALSE
    /\ restarts' = 0
    /\ pushed' = {}
    /\ calls' = 0
    /\ before' = [j \in Jobs |-> {}]
    /\ panicked' = why

\* ------------------------------------------------------------------ sync.RWMutex
\* RLock blocks while a writer holds the lock or waits for it
CanRLock == wmu = NoProc

\* Lock first takes the writers' mutex, which also stops new readers
CanLock == wmu = NoProc

\* ------------------------------------------------------------------ submission
\* pushJobInternal up to the write lock: the Job object, then initMetadata
\* under RLock (time.Now(), status Pending, the first free id)
initMetadata(s, k, st, unix) ==
    /\ panicked = "none"
    /\ NextCaller(s)
    /\ nCreated < MaxJobs
    /\ CanRLock
    /\ unix >= now
    /\ now' = unix
    /\ LET j == nCreated + 1 IN
        /\ nCreated' = j
        /\ task' = [task EXCEPT ![j] = k]
        /\ created' = [created EXCEPT ![j] = unix]
        /\ status' = [status EXCEPT ![j] = "Pending"]
        /\ id' = [id EXCEPT ![j] = <<k, unix, FreeCounter(jobTable, k, unix, 0)>>]
        /\ arg' = [arg EXCEPT ![s] = [job |-> j, start |-> st]]
        /\ startCalls' = [startCalls EXCEPT ![j] = IF st THEN 1 ELSE 0]
        /\ before' = [before EXCEPT ![j] =
                        IF st /\ IsSequential(k)
                        THEN {a \in Returned : IsSequential(task[a])}
                        ELSE {}]
        /\ pushed' = IF st THEN pushed \cup {j} ELSE pushed
    /\ calls < MaxCalls
    /\ calls' = calls + 1
    /\ pc' = [pc EXCEPT ![s] = "insert"]
    /\ UNCHANGED <<closed, quit, wg, wmu, readers, jobTable, completed,
                   depVars, err, ctlVars, restarts, panicked>>

\* PushJob(task): pushJobInternal, then StartJob
PushJob(s, k, unix) == initMetadata(s, k, TRUE, unix)

\* PushJobLater(task): pushJobInternal only
PushJobLater(s, k, unix) == initMetadata(s, k, FALSE, unix)

\* pushJobInternal(nil) panics
PushNil(s) ==
    /\ panicked = "none"
    /\ NextCaller(s)
    /\ Crash("passed nil job!")

\* mut.Lock() of pushJobInternal, Begin, Close and popJob: queue as the writer
LockWait(p, from, to) ==
    /\ panicked = "none"
    /\ pc[p] = from
    /\ CanLock
    /\ wmu' = p
    /\ pc' = [pc EXCEPT ![p] = to]
    /\ UNCHANGED <<closed, quit, wg, readers, jobTable, jobVars, depVars, startCalls,
                   arg, err, now, nCreated, ctlVars, restarts, histVars, calls, panicked>>

pushLock(s) == LockWait(s, "insert", "insertW")

\* the locked part of pushJobInternal: register the Job unless closed
pushJobInternal(s) ==
    /\ panicked = "none"
    /\ pc[s] = "insertW"
    /\ wmu = s
    /\ readers = {}
    /\ LET j == arg[s].job IN
        /\ jobTable' = IF closed THEN jobTable ELSE TableInsert(jobTable, id[j], j)
        /\ pc' = [pc EXCEPT ![s] = IF arg[s].start THEN "start" ELSE "idle"]
        /\ arg' = [arg EXCEPT ![s] = IF arg[s].start THEN arg[s] ELSE NoArg]
    /\ wmu' = NoProc
    /\ UNCHANGED <<closed, quit, wg, readers, jobVars, depVars, startCalls, err, now,
                   nCreated, ctlVars, restarts, histVars, calls, panicked>>

\* a child registers itself on a parent that was created with PushJobLater
AddDependency(p, c) ==
    /\ panicked = "none"
    /\ p < c
    /\ status[p] = "Pending" /\ status[c] = "Pending"
    /\ ~InCall(p) /\ ~InCall(c)
    /\ startCalls[p] = 0 /\ startCalls[c] = 0
    /\ p \notin parents[c]
    /\ parents' = [parents EXCEPT ![c] = @ \cup {p}]
    /\ waiting' = [waiting EXCEPT ![p] = @ \cup {c}]
    /\ children' = [children EXCEPT ![p] = @ \cup {c}]
    /\ UNCHANGED <<closed, quit, wg, wmu, readers, jobTable, jobVars, startCalls, pc,
                   arg, err, now, nCreated, ctlVars, restarts, histVars, calls, panicked>>

\* a client calls StartJob(job) on a Job it holds
StartCall(s, j) ==
    /\ panicked = "none"
    /\ calls < MaxCalls
    /\ calls' = calls + 1
    /\ NextCaller(s)
    /\ status[j] # "None"
    /\ ~InCall(j)
    /\ children[j] = {}
    /\ \/ startCalls[j] = 0 /\ restarts' = restarts
       \/ /\ startCalls[j] > 0
          /\ parents[j] = {}
          /\ restarts < MaxRestarts
          /\ restarts' = restarts + 1
    /\ startCalls' = [startCalls EXCEPT ![j] = @ + 1]
    /\ arg' = [arg EXCEPT ![s] = [job |-> j, start |-> FALSE]]
    /\ pc' = [pc EXCEPT ![s] = "start"]
    /\ UNCHANGED <<closed, quit, wg, wmu, readers, jobTable, jobVars, depVars, err,
                   now, nCreated, ctlVars, histVars, panicked>>

\* a slip that would send without holding the read lock
StartJobNoLock(p) ==
    /\ panicked = "none"
    /\ pc[p] = "start"
    /\ CanRLock
    /\ IF closed
       THEN /\ pc' = [pc EXCEPT ![p] = IF p \in Submitters THEN "idle" ELSE "none"]
            /\ arg' = [arg EXCEPT ![p] = NoArg]
       ELSE /\ pc' = [pc EXCEPT ![p] = "send"]
            /\ arg' = arg
    /\ UNCHANGED <<closed, quit, wg, wmu, readers, jobTable, jobVars, depVars,
                   startCalls, err, now, nCreated, ctlVars, restarts, histVars, calls,
                   panicked>>

\* StartJob up to the channel send: RLock, return if closed
StartJob(p) ==
    /\ panicked = "none"
    /\ pc[p] = "start"
    /\ CanRLock
    /\ IF closed
       THEN /\ pc' = [pc EXCEPT ![p] = IF p \in Submitters THEN "idle" ELSE "none"]
            /\ arg' = [arg EXCEPT ![p] = NoArg]
            /\ readers' = readers
       ELSE /\ pc' = [pc EXCEPT ![p] = "send"]
            /\ readers' = readers \cup {p}
            /\ arg' = arg
    /\ UNCHANGED <<closed, quit, wg, wmu, jobTable, jobVars, depVars, startCalls, err,
                   now, nCreated, ctlVars, restarts, histVars, calls, panicked>>

\* the deferred RUnlock of StartJob, after the send went through
StartJobReturn(p) ==
    /\ panicked = "none"
    /\ pc[p] = "sent"
    /\ readers' = readers \ {p}
    /\ pc' = [pc EXCEPT ![p] = IF p \in Submitters THEN "idle" ELSE "none"]
    /\ arg' = [arg EXCEPT ![p] = NoArg]
    /\ UNCHANGED <<closed, quit, wg, wmu, jobTable, jobVars, depVars, startCalls, err,
                   now, nCreated, ctlVars, restarts, histVars, calls, panicked>>

\* ------------------------------------------------------------------ consumers
\* whether consumer c reads the sequential lane
Lane(c) == IsSeqConsumer(c)

\* the goroutines blocked in a send on the lane consumer c reads
Senders(c) ==
    {p \in Submitters \cup Starters :
        pc[p] = "send" /\ IsSequential(task[arg[p].job]) = Lane(c)}

\* a slip that would start every parent of a finished Job, blocked or not
StartedParentsAll(j) == parents[j]

\* executeJob: the parents handed to "go j.StartJob(p)" are those NotifyDone returned
StartedParents(j) == NotifyDone(j)

\* the select takes a Job off its lane; executeJob up to the call of Perform
Receive(c, p) ==
    /\ panicked = "none"
    /\ NextConsumer(c)
    /\ p \in Senders(c)
    /\ LET j == arg[p].job IN
        /\ arg' = [arg EXCEPT ![c] = [job |-> j, start |-> FALSE]]
        /\ status' = [status EXCEPT ![j] = "Running"]
    /\ pc' = [pc EXCEPT ![c] = "run", ![p] = "sent"]
    /\ UNCHANGED <<closed, quit, wg, wmu, readers, jobTable, task, created, id,
                   completed, depVars, startCalls, err, now, nCreated, ctlVars,
                   restarts, histVars, calls, panicked>>

\* a slip that would record the terminal status before popJob
executeJobStatusFirst(c, e) ==
    /\ panicked = "none"
    /\ pc[c] = "run"
    /\ LET j == arg[c].job
           freed == StartedParents(j)
       IN
        /\ err' = [err EXCEPT ![c] = e]
        /\ status' = [status EXCEPT ![j] = IF e THEN "Failed" ELSE "Success"]
        /\ completed' = completed \cup {j}
        /\ waiting' = [p \in Jobs |-> IF p \in parents[j] THEN waiting[p] \ {j} ELSE waiting[p]]
        /\ startCalls' = [p \in Jobs |-> IF p \in freed THEN startCalls[p] + 1 ELSE startCalls[p]]
        /\ pc' = [q \in Procs |->
                    IF q = c THEN "pop"
                    ELSE IF \E p \in freed : q = Starter(p) THEN "start"
                    ELSE pc[q]]
        /\ arg' = [q \in Procs |->
                    IF \E p \in freed : q = Starter(p)
                    THEN [job |-> q[2], start |-> FALSE]
                    ELSE arg[q]]
    /\ UNCHANGED <<closed, quit, wg, wmu, readers, jobTable, task, created, id,
                   parents, children, now, nCreated, ctlVars, restarts,
                   histVars, calls, panicked>>

\* executeJob from the return of Perform to the call of popJob
executeJob(c, e) ==
    /\ panicked = "none"
    /\ pc[c] = "run"
    /\ LET j == arg[c].job
           freed == StartedParents(j)
       IN
        /\ err' = [err EXCEPT ![c] = e]
        /\ completed' = completed \cup {j}
        /\ waiting' = [p \in Jobs |-> IF p \in parents[j] THEN waiting[p] \ {j} ELSE waiting[p]]
        /\ startCalls' = [p \in Jobs |-> IF p \in freed THEN startCalls[p] + 1 ELSE startCalls[p]]
        /\ pc' = [q \in Procs |->
                    IF q = c THEN "pop"
                    ELSE IF \E p \in freed : q = Starter(p) THEN "start"
                    ELSE pc[q]]
        /\ arg' = [q \in Procs |->
                    IF \E p \in freed : q = Starter(p)
                    THEN [job |-> q[2], start |-> FALSE]
                    ELSE arg[q]]
    /\ UNCHANGED <<closed, quit, wg, wmu, readers, jobTable, task, created, id, status,
                   parents, children, now, nCreated, ctlVars, restarts,
                   histVars, calls, panicked>>

popLock(c) == LockWait(c, "pop", "popW")

\* popJob, holding the lock
popJob(c) ==
    /\ panicked = "none"
    /\ pc[c] = "popW"
    /\ wmu = c
    /\ readers = {}
    /\ jobTable' = TableDelete(jobTable, id[arg[c].job])
    /\ wmu' = NoProc
    /\ pc' = [pc EXCEPT ![c] = "status"]
    /\ UNCHANGED <<closed, quit, wg, readers, jobVars, depVars, startCalls, arg, err,
                   now, nCreated, ctlVars, restarts, histVars, calls, panicked>>

\* the end of executeJob: reportError or StatusSuccess, back to the select
setStatus(c) ==
    /\ panicked = "none"
    /\ pc[c] = "status"
    /\ status' = [status EXCEPT ![arg[c].job] = IF err[c] THEN "Failed" ELSE "Success"]
    /\ pc' = [pc EXCEPT ![c] = "idle"]
    /\ arg' = [arg EXCEPT ![c] = NoArg]
    /\ err' = [err EXCEPT ![c] = FALSE]
    /\ UNCHANGED <<closed, quit, wg, wmu, readers, jobTable, task, created, id, completed, depVars, startCalls, now, nCreated, ctlVars, restarts,
                   histVars, calls, panicked>>

\* the select takes a value off quit: return, with the deferred wg.Done()
ConsumerQuit(c) ==
    /\ panicked = "none"
    /\ NextConsumer(c)
    /\ quit > 0
    /\ quit' = quit - 1
    /\ wg' = wg - 1
    /\ pc' = [pc EXCEPT ![c] = "exited"]
    /\ UNCHANGED <<closed, wmu, readers, jobTable, jobVars, depVars, startCalls, arg,
                   err, now, nCreated, ctlVars, restarts, histVars, calls, panicked>>

\* the select receives nil from the closed lane: return, with wg.Done()
ConsumerNil(c) ==
    /\ panicked = "none"
    /\ NextConsumer(c)
    /\ closed
    /\ wg' = wg - 1
    /\ pc' = [pc EXCEPT ![c] = "exited"]
    /\ UNCHANGED <<closed, quit, wmu, readers, jobTable, jobVars, depVars, startCalls,
                   arg, err, now, nCreated, ctlVars, restarts, histVars, calls, panicked>>

\* ------------------------------------------------------------------ Begin and Close
\* a call of Begin, up to mut.Lock() queueing as the writer
BeginCall ==
    /\ panicked = "none"
    /\ calls < MaxCalls
    /\ calls' = calls + 1
    /\ pc[Ctl] = "idle"
    /\ beginCalls < MaxBegins
    /\ CanLock
    /\ wmu' = Ctl
    /\ beginCalls' = beginCalls + 1
    /\ pc' = [pc EXCEPT ![Ctl] = "beginW"]
    /\ UNCHANGED <<closed, quit, wg, readers, jobTable, jobVars, depVars,
                   startCalls, arg, err, now, nCreated, closeCalls, closeReturned,
                   restarts, histVars, panicked>>

\* Begin, holding the lock: wg.Add(2) and the two goroutines, unless closed
Begin ==
    /\ panicked = "none"
    /\ pc[Ctl] = "beginW"
    /\ wmu = Ctl
    /\ readers = {}
    /\ IF closed
       THEN /\ pc' = [pc EXCEPT ![Ctl] = "idle"]
            /\ wg' = wg
       ELSE /\ wg' = wg + 2
            /\ pc' = [pc EXCEPT ![Ctl] = "idle",
                                ![Consumer(beginCalls, 0)] = "idle",
                                ![BgQueue(beginCalls)] = "spawn"]
    /\ wmu' = NoProc
    /\ UNCHANGED <<closed, quit, readers, jobTable, jobVars, depVars, startCalls, arg,
                   err, now, nCreated, ctlVars, restarts, histVars, calls, panicked>>

\* a slip that would spawn the workers without wg.Add(njobs)
processBackgroundQueueNoAdd(b) ==
    /\ panicked = "none"
    /\ pc[BgQueue(b)] = "spawn"
    /\ wg' = wg - 1
    /\ pc' = [q \in Procs |->
                IF q = BgQueue(b) THEN "exited"
                ELSE IF q \in Consumers /\ q[2] = b /\ q[3] > 0 THEN "idle"
                ELSE pc[q]]
    /\ UNCHANGED <<closed, quit, wmu, readers, jobTable, jobVars, depVars, startCalls,
                   arg, err, now, nCreated, ctlVars, restarts, histVars, calls, panicked>>

\* processBackgroundQueue: wg.Add(njobs), the workers, the deferred wg.Done()
processBackgroundQueue(b) ==
    /\ panicked = "none"
    /\ pc[BgQueue(b)] = "spawn"
    /\ wg' = wg + NJobs - 1
    /\ pc' = [q \in Procs |->
                IF q = BgQueue(b) THEN "exited"
                ELSE IF q \in Consumers /\ q[2] = b /\ q[3] > 0 THEN "idle"
                ELSE pc[q]]
    /\ UNCHANGED <<closed, quit, wmu, readers, jobTable, jobVars, depVars, startCalls,
                   arg, err, now, nCreated, ctlVars, restarts, histVars, calls, panicked>>

\* a call of Close, up to mut.Lock() queueing as the writer
CloseCall ==
    /\ panicked = "none"
    /\ calls < MaxCalls
    /\ calls' = calls + 1
    /\ pc[Ctl] = "idle"
    /\ closeCalls < MaxCloses
    /\ CanLock
    /\ wmu' = Ctl
    /\ closeCalls' = closeCalls + 1
    /\ pc' = [pc EXCEPT ![Ctl] = "closeW"]
    /\ UNCHANGED <<closed, quit, wg, readers, jobTable, jobVars, depVars,
                   startCalls, arg, err, now, nCreated, beginCalls, closeReturned,
                   restarts, histVars, panicked>>

\* a slip that would leave the Processor open: no flag, no close()
ClosedLeftOpen == FALSE

\* Close: "j.closed = true", and close() on both lanes
ClosedByClose == TRUE

\* Close, holding the lock: set closed, close both lanes, fill quit; close()
\* on a lane in which a goroutine is blocked sending makes that send panic
Close ==
    /\ panicked = "none"
    /\ pc[Ctl] = "closeW"
    /\ wmu = Ctl
    /\ readers = {}
    /\ IF closed
       THEN /\ pc' = [pc EXCEPT ![Ctl] = "idle"]
            /\ wmu' = NoProc
            /\ UNCHANGED <<closed, quit, wg, readers, jobTable, jobVars, depVars,
                           startCalls, arg, err, now, nCreated, ctlVars, restarts,
                           histVars, calls, panicked>>
       ELSE IF \E p \in Submitters \cup Starters : pc[p] = "send"
       THEN Crash("send on closed channel")
       ELSE /\ closed' = ClosedByClose
            /\ quit' = quit + NJobs + 1
            /\ pc' = [pc EXCEPT ![Ctl] = "wait"]
            /\ UNCHANGED <<wmu, wg, readers, jobTable, jobVars, depVars, startCalls,
                           arg, err, now, nCreated, ctlVars, restarts, histVars,
                           calls, panicked>>

\* wg.Wait() returns, then the deferred Unlock
CloseReturn ==
    /\ panicked = "none"
    /\ pc[Ctl] = "wait"
    /\ wg = 0
    /\ wmu' = NoProc
    /\ closeReturned' = TRUE
    /\ pc' = [pc EXCEPT ![Ctl] = "idle"]
    /\ UNCHANGED <<closed, quit, wg, readers, jobTable, jobVars, depVars, startCalls,
                   arg, err, now, nCreated, beginCalls, closeCalls, restarts, histVars, calls,
                   panicked>>

\* ------------------------------------------------------------------ specification
\* the steps of goroutines that are inside the Processor's code
SubmitterStep(s) == pushLock(s) \/ pushJobInternal(s)

StarterStep(p) == StartJob(p) \/ StartJobReturn(p)

ConsumerStep(c) ==
    \/ \E p \in Submitters \cup Starters : Receive(c, p)
    \/ \E e \in BOOLEAN : executeJob(c, e)
    \/ popLock(c) \/ popJob(c) \/ setStatus(c)
    \/ ConsumerQuit(c) \/ ConsumerNil(c)

CtlStep == Begin \/ Close \/ CloseReturn

SystemStep ==
    \/ \E s \in Submitters : SubmitterStep(s)
    \/ \E p \in Submitters \cup Starters : StarterStep(p)
    \/ \E c \in Consumers : ConsumerStep(c)
    \/ \E b \in 1..MaxBegins : processBackgroundQueue(b)
    \/ CtlStep

\* the calls clients make
ClientStep ==
    \/ \E s \in Submitters : \E k \in Kinds : \E unix \in 0..MaxTime :
          PushJob(s, k, unix) \/ PushJobLater(s, k, unix)
    \/ \E s \in Submitters : PushNil(s)
    \/ \E p, c \in Jobs : AddDependency(p, c)
    \/ \E s \in Submitters : \E j \in Jobs : StartCall(s, j)
    \/ BeginCall
    \/ CloseCall

Next == SystemStep \/ ClientStep

Spec == Init /\ [][Next]_vars

\* the Go scheduler runs every goroutine that can run; clients may stop calling
FairSpec ==
    /\ Spec
    /\ \A s \in Submitters : WF_vars(SubmitterStep(s))
    /\ \A p \in Submitters \cup Starters : WF_vars(StarterStep(p))
    /\ \A c \in Consumers : WF_vars(ConsumerStep(c))
    /\ \A b \in 1..MaxBegins : WF_vars(processBackgroundQueue(b))
    /\ WF_vars(CtlStep)

\* ------------------------------------------------------------------ claims
Terminal(j) == status[j] \in {"Success", "Failed"}

\* no goroutine inside the Processor's code can take a step
Quiescent == panicked = "none" /\ ~ENABLED SystemStep

\* Begin has been called once, has returned, and Close was never called
StartedOnce ==
    /\ beginCalls = 1
    /\ closeCalls = 0
    /\ pc[Ctl] = "idle"
    /\ pc[BgQueue(1)] = "exited"

\* C1: on a Processor started once and never closed, every Job submitted
\* through PushJob reaches Success or Failed; stated on the states in which
\* nothing inside the Processor can move any more: there, no pushed Job is
\* left short of a terminal status (no Job is handed to StartJob twice).
C1_PushedJobsFinish ==
    (StartedOnce /\ restarts = 0 /\ Quiescent) => \A j \in pushed : Terminal(j)

\* a consumer is between timing.Started and timing.Completed of Job j
InPerform(j) == \E c \in Consumers : pc[c] = "run" /\ arg[c].job = j

SeqJobs == {j \in Jobs : status[j] # "None" /\ IsSequential(task[j])}

BgJobs == {j \in Jobs : status[j] # "None" /\ ~IsSequential(task[j])}

\* C2: sequential-lane Jobs never overlap and run in submission order: no two
\* distinct sequential Jobs are inside Perform at once, and a sequential Job
\* that has started finds every sequential Job whose PushJob had returned
\* before its own PushJob was called already completed.
C2_SequentialInOrderNoOverlap ==
    /\ \A a, b \in SeqJobs : (a # b) => ~(InPerform(a) /\ InPerform(b))
    /\ \A b \in SeqJobs \cap started : \A a \in before[b] : a \in completed

\* C3: at most NJobs background-lane Jobs are inside Perform at once.
C3_BackgroundBoundedByWorkers ==
    Cardinality({j \in BgJobs : InPerform(j)}) <= NJobs

\* a goroutine holds Job p on its way to a lane, or a consumer holds it
OnLane(p) ==
    \/ \E q \in Submitters \cup Starters :
          pc[q] \in {"start", "send", "sent"} /\ arg[q].job = p
    \/ \E c \in Consumers : arg[c].job = p

\* C4: a parent with outstanding children is Pending, on no lane, and no
\* StartJob has been issued for it; the Processor issues StartJob for a parent
\* exactly when its last child has notified it, and at most once.
C4_ParentWaitsForChildren ==
    \A p \in Jobs :
        /\ waiting[p] # {} =>
              (status[p] = "Pending" /\ ~OnLane(p) /\ startCalls[p] = 0)
        /\ (children[p] # {} /\ waiting[p] = {}) => startCalls[p] = 1
        /\ pc[Starter(p)] # "none" => (children[p] # {} /\ waiting[p] = {})

\* C4 witness: both children of a parent have finished, one of them with an
\* error, and the parent, started once, is running
C4_Witness ==
    \E p \in Jobs :
        /\ Cardinality(children[p]) = 2
        /\ \A c \in children[p] : Terminal(c)
        /\ \E c \in children[p] : status[c] = "Failed"
        /\ startCalls[p] = 1
        /\ status[p] = "Running"

\* C5: on a Processor started once and never closed, a parent all of whose
\* children have finished (with or without error) is started and reaches a
\* terminal status; stated on the states in which nothing inside the
\* Processor can move any more.
C5_UnblockedParentFinishes ==
    (StartedOnce /\ restarts = 0 /\ Quiescent) =>
        \A p \in Jobs :
            (children[p] # {} /\ children[p] \subseteq completed) => Terminal(p)

\* C6: no two distinct Jobs of one Processor carry the same id.
C6_JobIdsUnique ==
    \A a, b \in Jobs :
        (a # b /\ status[a] # "None" /\ status[b] # "None") => id[a] # id[b]

\* C7: when Close is called with Jobs in flight, those Jobs drain and Close
\* returns; stated on the states in which nothing inside the Processor can
\* move any more: if Close has closed the Processor, it has returned and no
\* Job is left Running.
C7_CloseDrainsInFlight ==
    (Quiescent /\ closed) =>
        (closeReturned /\ \A j \in Jobs : status[j] # "Running")

\* C8: once Close has returned, no step makes a Job Running.
C8_NoStartAfterClose ==
    [][closeReturned =>
         \A j \in Jobs : (status'[j] = "Running") => (status[j] = "Running")]_vars

\* C8 witness: Close has returned on a Processor that had been started, and a
\* PushJob issued afterwards has returned with its Job still Pending
C8_Witness ==
    /\ closeReturned
    /\ \E c \in Consumers : pc[c] = "exited"
    /\ \E j \in Returned : status[j] = "Pending" /\ id[j] \notin DOMAIN jobTable

\* C9: when Close has returned, every pump and worker that Begin spawned, or
\* was about to spawn, has exited, and none of them holds a Job.
C9_CloseWaitsForConsumers ==
    closeReturned =>
        /\ \A c \in Consumers : pc[c] \in {"none", "exited"} /\ arg[c].job = NoJob
        /\ \A b \in 1..MaxBegins : pc[BgQueue(b)] # "spawn"

\* C9 witness: Close has returned after a consumer ran a Job to its end
C9_Witness ==
    /\ closeReturned
    /\ \E c \in Consumers : pc[c] = "exited" /\ c[3] > 0
    /\ \E j \in Jobs : Terminal(j)

Alive(c) == pc[c] \notin {"none", "exited"}

\* C10: after any number of Begin calls on an open Processor there is exactly
\* one sequential-lane consumer and exactly NJobs background workers.
C10_BeginIdempotent ==
    ( /\ panicked = "none"
      /\ ~closed
      /\ beginCalls >= 1
      /\ pc[Ctl] = "idle"
      /\ \A b \in 1..beginCalls : pc[BgQueue(b)] = "exited" ) =>
        /\ Cardinality({c \in Consumers : Alive(c) /\ IsSeqConsumer(c)}) = 1
        /\ Cardinality({c \in Consumers : Alive(c) /\ ~IsSeqConsumer(c)}) = NJobs

\* C11: Close on a Processor on which Begin was never called returns and
\* leaves the Processor closed, whatever PushJobLater, PushJob and StartJob
\* calls came before it; stated on the states in which nothing inside the
\* Processor can move any more: there, a Close that was called has returned.
C11_CloseWithoutBegin ==
    (Quiescent /\ beginCalls = 0 /\ closeCalls >= 1) => (closeReturned /\ closed)

\* C12: on a closed Processor, PushJob, PushJobLater and StartJob return
\* without blocking, send nothing, insert nothing and leave the Job Pending;
\* the part on blocking, stated on the states in which nothing inside the
\* Processor can move any more: with closed set, no client is left at the
\* entry of StartJob (its RLock) or short of pushJobInternal's Lock.
C12_ClosedSubmissionReturns ==
    (Quiescent /\ closed) => \A s \in Submitters : pc[s] = "idle"

\* C13: a Job whose Perform returned an error ends Failed, leaves the table,
\* and its consumer goes back to dequeuing; stated on the states in which
\* nothing inside the Processor can move any more, for a Processor started
\* once and never closed: there, no consumer is still holding a Job whose
\* Perform returned an error (err is cleared when the status is recorded).
C13_FailureStaysInJob ==
    (StartedOnce /\ restarts = 0 /\ Quiescent) =>
        \A c \in Consumers :
            err[c] => (status[arg[c].job] = "Failed" /\ pc[c] = "idle")

\* no consumer of the lane of Job j is waiting in its select
NoConsumerReady(j) ==
    ~\E c \in Consumers : pc[c] = "idle" /\ Lane(c) = IsSequential(task[j])

\* C14: a goroutine blocked in a lane's channel send, with no consumer ready
\* to receive, holds no lock on the job table.
C14_SendOutsideLock ==
    \A p \in Submitters \cup Starters :
        (pc[p] = "send" /\ NoConsumerReady(arg[p].job)) => p \notin readers

\* C15: no Job is sent on a lane that Close has closed: Close never closes a
\* lane in which a goroutine is blocked sending (that send would panic), and
\* once closed is set no goroutine, client or spawned for a parent, is in a
\* lane's send.
C15_NoSendOnClosedLane ==
    /\ panicked # "send on closed channel"
    /\ closed => \A p \in Submitters \cup Starters : pc[p] # "send"

\* C15 witness: Close has closed the Processor and returned while the
\* goroutine spawned for an unblocked parent had not yet entered StartJob
C15_Witness ==
    /\ closeReturned
    /\ \E p \in Starters : pc[p] = "start" /\ waiting[arg[p].job] = {}

\* pushJobInternal has returned for Job j
Registered(j) ==
    /\ status[j] # "None"
    /\ ~\E s \in Submitters : arg[s].job = j /\ pc[s] \in {"insert", "insertW"}

\* C16: on a Processor that was never closed, a Job is in the table, under
\* its own id and mapped to itself, from the return of pushJobInternal until
\* its Perform has returned (no Job is handed to StartJob twice).
C16_LiveJobsInTable ==
    (~closed /\ restarts = 0) =>
        \A j \in Jobs :
            (Registered(j) /\ j \notin completed) =>
                (id[j] \in DOMAIN jobTable /\ jobTable[id[j]] = j)

\* C17: when pushJobInternal, holding the lock on an open Processor, is about
\* to insert a Job, the table has no entry under that Job's id.
C17_InsertFindsIdFree ==
    \A s \in Submitters :
        (pc[s] = "insertW" /\ wmu = s /\ readers = {} /\ ~closed) =>
            id[arg[s].job] \notin DOMAIN jobTable

\* Job p is in a lane's send, or a consumer has taken it
Queued(p) == \E q \in Submitters \cup Starters : pc[q] = "send" /\ arg[q].job = p

\* C18: whenever an unblocked parent is queued or Running, every one of its
\* children has a terminal status and is absent from the table (no Job is
\* handed to StartJob twice).
C18_ParentAfterChildRemoved ==
    restarts = 0 =>
        \A p \in Jobs :
            (children[p] # {} /\ (Queued(p) \/ status[p] = "Running")) =>
                \A c \in children[p] :
                    Terminal(c) /\ id[c] \notin DOMAIN jobTable

\* C19: Success and Failed are absorbing: no step of a running process
\* changes the status of a Job that is Success or Failed, whatever public
\* operations are called.
C19_TerminalStatusAbsorbing ==
    [][panicked' = "none" =>
         \A j \in Jobs : Terminal(j) => status'[j] = status[j]]_vars

\* C20: every Job stored in the table is Pending or Running: popJob deletes
\* a Job's entry before its status becomes Success or Failed.
C20_TableHoldsNoTerminalJob ==
    \A k \in DOMAIN jobTable : status[jobTable[k]] \in {"Pending", "Running"}

\* C20 witness: one Job has finished and has its terminal status while
\* another Job, Running, is still in the table
C20_Witness ==
    /\ \E j \in Jobs : Terminal(j) /\ id[j] \notin DOMAIN jobTable
    /\ \E k \in DOMAIN jobTable : status[jobTable[k]] = "Running"

====
